---- MODULE Spec2Model ----
(***************************************************************************)
(* A model of SimpleESN (src/simple_esn/simple_esn.py): one estimator      *)
(* instance, its constructor parameters, its random generator, its three   *)
(* lazily created attributes weights_, input_weights_, readout_idx_, the   *)
(* attribute components_ every call overwrites, and the public methods     *)
(* fit, fit_transform and transform.                                       *)
(*                                                                         *)
(* Numbers.  float64 values are modelled in fixed point: the integer v     *)
(* stands for v / Scale.  Products are divided by Scale and quotients are  *)
(* truncated toward zero.  The generator's draws take values in a set     *)
(* with no pair v, -v, so that a drawn recurrent matrix of the sizes the   *)
(* model explores is never nilpotent: the spectral radius 0, which float64 *)
(* draws produce with probability 0, does not occur.                       *)
(*                                                                         *)
(* Optional values.  Python's None is <<>> and a present value v is <<v>>. *)
(***************************************************************************)
EXTENDS Integers, Sequences, FiniteSets, TLC

VARIABLES
    params,          \* the constructor's arguments, as stored on self
    seed,            \* <<>> for random_state=None, <<k>> for random_state=k
    random_state,    \* the generator's internal state
    weights_,        \* <<>> or <<matrix>>
    input_weights_,  \* <<>> or <<matrix>>
    readout_idx_,    \* <<>> or <<sequence of row indices>>
    components_,     \* <<>> or <<matrix>>: self.components_
    last,            \* the latest call: its method, argument and outcome
    calls,           \* number of calls made so far
    draws,           \* number of draws (rand / permutation calls) consumed
    inits,           \* number of calls that assigned weights_, input_weights_ or readout_idx_
    lazyInits,       \* the transform calls among them
    memo,            \* <<>> or <<[x, result]>>: one earlier transform on the present weights
    thr              \* the concurrent transform calls (SpecConc only)

vars == <<params, seed, random_state, weights_, input_weights_, readout_idx_,
          components_, last, calls, draws, inits, lazyInits, memo, thr>>

----------------------------------------------------------------------------
(* Bounds of the model *)

Scale == 100
RngMod == 32
MaxSamples == 2
MaxCalls == 3

----------------------------------------------------------------------------
(* Arithmetic *)

Abs(a) == IF a < 0 THEN -a ELSE a
Sign(a) == IF a < 0 THEN -1 ELSE IF a > 0 THEN 1 ELSE 0
Min2(a, b) == IF a < b THEN a ELSE b
Max2(a, b) == IF a > b THEN a ELSE b

\* quotient truncated toward zero (b > 0)
TruncDiv(a, b) == IF a >= 0 THEN a \div b ELSE -((-a) \div b)

RECURSIVE ISqrtBetween(_, _, _)
\* the k of lo..hi with k * k <= n < (k + 1) * (k + 1), by bisection
ISqrtBetween(n, lo, hi) ==
    IF lo = hi THEN lo
    ELSE IF ((lo + hi + 1) \div 2) * ((lo + hi + 1) \div 2) <= n
         THEN ISqrtBetween(n, (lo + hi + 1) \div 2, hi)
         ELSE ISqrtBetween(n, lo, (lo + hi + 1) \div 2 - 1)
\* floor of the square root of n >= 0
ISqrt(n) == ISqrtBetween(n, 0, n)

\* F(e), with e evaluated once, before F is
LetIn(e, F(_)) == CHOOSE r \in { F(v) : v \in {e} } : TRUE

Some(v) == <<v>>
None == <<>>
IsNone(o) == o = <<>>
Get(o) == o[1]

----------------------------------------------------------------------------
(* Matrices: [shape |-> <<rows, cols>>, a |-> rows of entries]; a zero-row  *)
(* matrix keeps its column count, as a numpy array does.                    *)

Matrix(r, c, F(_, _)) ==
    [shape |-> <<r, c>>, a |-> [i \in 1..r |-> [j \in 1..c |-> F(i, j)]]]
Rows(m) == m.shape[1]
Cols(m) == m.shape[2]
Zeros(r, c) == [shape |-> <<r, c>>, a |-> [i \in 1..r |-> [j \in 1..c |-> 0]]]

RECURSIVE SumTo(_, _)
\* f[1] + ... + f[n]
SumTo(f, n) == IF n = 0 THEN 0 ELSE f[n] + SumTo(f, n - 1)

----------------------------------------------------------------------------
(* The random generator (numpy.random.RandomState behind                    *)
(* check_random_state): a linear congruential sequence.                     *)

NextRng(s) == (5 * s + 3) % RngMod

RECURSIVE Advance(_, _)
\* the state after k values have been drawn
Advance(s, k) == IF k = 0 THEN s ELSE Advance(NextRng(s), k - 1)

\* check_random_state(k): a generator seeded with the integer k
SeedState(k) == (7 * k + 1) % RngMod

\* the values rand() returns, in tenths
UniformLevels == <<0, 2, 4, 7, 9>>

\* one float of rand(): a value of [0, 1), read off the state s
Uniform(s) == (UniformLevels[(s % Len(UniformLevels)) + 1] * Scale) \div 10

\* random_state.rand(r, c) for r, c >= 0: the matrix, filled row by row, and
\* the generator's state afterwards
Rand(s, r, c) ==
    [rng |-> Advance(s, r * c),
     m   |-> Matrix(r, c, LAMBDA i, j : Uniform(Advance(s, (i - 1) * c + j)))]

\* m - 0.5
MinusHalf(m) ==
    Matrix(Rows(m), Cols(m), LAMBDA i, j : m.a[i][j] - (Scale \div 2))

\* np.max(np.abs(la.eig(m)[0])) of a square matrix m of 1 or 2 rows
SpectralRadius(m) ==
    IF Rows(m) = 1 THEN Abs(m.a[1][1])
    ELSE LET tr   == m.a[1][1] + m.a[2][2]
             det  == m.a[1][1] * m.a[2][2] - m.a[1][2] * m.a[2][1]
             disc == tr * tr - 4 * det
         IN  IF disc >= 0 THEN (Abs(tr) + ISqrt(disc)) \div 2
             ELSE ISqrt(det)

\* m *= weight_scaling / spectral_radius
Rescale(m, weight_scaling) ==
    LetIn(SpectralRadius(m), LAMBDA rho :
        Matrix(Rows(m), Cols(m),
               LAMBDA i, j : TruncDiv(m.a[i][j] * weight_scaling, rho)))

\* np.arange(lo, hi)
ARange(lo, hi) == [k \in 1..Max2(0, hi - lo) |-> lo + k - 1]

Swap(q, i, j) == [q EXCEPT ![i] = q[j], ![j] = q[i]]

RECURSIVE Shuffle(_, _, _)
\* the shuffle of q[1..i]: position i down to 2 is swapped with a drawn
\* position at or below it
Shuffle(q, s, i) ==
    IF i < 2 THEN [rng |-> s, q |-> q]
    ELSE LetIn(NextRng(s), LAMBDA s1 :
             Shuffle(Swap(q, i, (s1 % i) + 1), s1, i - 1))

\* random_state.permutation(q)
Permutation(s, q) == Shuffle(q, s, Len(q))

\* where the Python slice q[:k] of a sequence of length n stops
SliceStop(n, k) == IF k < 0 THEN Max2(0, n + k) ELSE Min2(k, n)
\* where the Python slice q[k:] starts
SliceStart(n, k) == IF k < 0 THEN Max2(0, n + k) ELSE Min2(k, n)

\* a faulty variant: the readout drawn among all rows of components_, the bias row and
\* the input rows included
DrawReadoutAnyRow(s, n_features, n_components, n_readout) ==
    LetIn(Permutation(s, ARange(0, 1 + n_features + n_components)),
          LAMBDA pm : [rng |-> pm.rng,
                       idx |-> SubSeq(pm.q, 1, SliceStop(Len(pm.q), n_readout))])

\* random_state.permutation(np.arange(1 + n_features,
\*     1 + n_features + n_components))[:n_readout]
DrawReadout(s, n_features, n_components, n_readout) ==
    LetIn(Permutation(s, ARange(1 + n_features, 1 + n_features + n_components)),
          LAMBDA pm : [rng |-> pm.rng,
                       idx |-> SubSeq(pm.q, 1, SliceStop(Len(pm.q), n_readout))])

----------------------------------------------------------------------------
(* The recurrence *)

\* np.tanh in fixed point: z (27 + z^2) / (27 + 9 z^2) for |z| < 3, the
\* sign of z beyond
Tanh(z) ==
    IF Abs(z) >= 3 * Scale THEN Sign(z) * Scale
    ELSE TruncDiv(z * (27 * Scale * Scale + z * z),
                  27 * Scale * Scale + 9 * z * z)

\* row i of the matrix m times the column vector v, as m.dot(v)[i]
Dot(m, i, v) ==
    TruncDiv(SumTo([k \in 1..Cols(m) |-> m.a[i][k] * v[k]], Cols(m)), Scale)

\* U[t, :]: the sample with the bias 1 in front
BiasRow(x, t) == <<Scale>> \o x.a[t]

\* curr_ = (1 - damping) * curr_ + damping * tanh(input_weights_.dot(u) + weights_.dot(curr_))
Update(w, iw, damping, curr, u) ==
    [i \in 1..Rows(iw) |->
        TruncDiv((Scale - damping) * curr[i]
                 + damping * Tanh(Dot(iw, i, u) + Dot(w, i, curr)), Scale)]

RECURSIVE Activations(_, _, _, _, _, _)
\* the values curr_ takes in the loop's iterations 1..t, from curr_ = curr0
Activations(w, iw, damping, x, curr0, t) ==
    IF t = 0 THEN <<>>
    ELSE LetIn(Activations(w, iw, damping, x, curr0, t - 1), LAMBDA before :
             Append(before,
                    Update(w, iw, damping,
                           IF t = 1 THEN curr0 ELSE before[t - 1],
                           BiasRow(x, t))))

\* np.vstack((u, curr_))[:, 0]
VStack(u, curr) == u \o curr

\* self.components_ once the loop has run over all of x from curr_ = curr0
PropagateFrom(w, iw, damping, x, curr0) ==
    LetIn(Activations(w, iw, damping, x, curr0, Rows(x)), LAMBDA act :
    LetIn([t \in 1..Rows(x) |-> VStack(BiasRow(x, t), act[t])], LAMBDA column :
        Matrix(1 + Cols(x) + Rows(iw), Rows(x), LAMBDA i, t : column[t][i])))

\* curr_ = np.zeros(shape=(self.n_components, 1)), then the loop
Propagate(w, iw, damping, x) ==
    PropagateFrom(w, iw, damping, x, [i \in 1..Rows(iw) |-> 0])

\* whether input_weights_.dot(u) is defined: else numpy raises ValueError
\* (shapes not aligned)
Aligned(iw, x) == Cols(iw) = 1 + Cols(x)

\* a faulty variant: the readout rows with no step discarded
ReadoutKeepAll(comp, idx, discard_steps) ==
    Matrix(Cols(comp), Len(idx), LAMBDA i, j : comp.a[idx[j] + 1][i])

\* self.components_[self.readout_idx_, self.discard_steps:].T
Readout(comp, idx, discard_steps) ==
    LET from == SliceStart(Cols(comp), discard_steps)
    IN  Matrix(Cols(comp) - from, Len(idx),
               LAMBDA i, j : comp.a[idx[j] + 1][from + i])

----------------------------------------------------------------------------
(* The methods, as functions from the instance (and the argument x) to the  *)
(* instance the call leaves.  outcome is "ok" or the exception raised;      *)
(* ndraws counts the generator calls made and assigned tells whether        *)
(* weights_, input_weights_ or readout_idx_ was assigned.                   *)

Self ==
    [params |-> params, random_state |-> random_state, weights_ |-> weights_,
     input_weights_ |-> input_weights_, readout_idx_ |-> readout_idx_,
     components_ |-> components_, outcome |-> "ok", ndraws |-> 0,
     assigned |-> FALSE]

\* transform, lines 195-200: if self.weights_ is None
LazyWeights(self) ==
    LET nc == self.params.n_components
    IN  IF ~IsNone(self.weights_) THEN self
        ELSE IF nc < 0 THEN [self EXCEPT !.outcome = "ValueError"]
        ELSE
        LetIn(Rand(self.random_state, nc, nc), LAMBDA d1 :
            IF nc = 0
            THEN [self EXCEPT !.weights_ = Some(MinusHalf(d1.m)),
                              !.random_state = d1.rng,
                              !.outcome = "ValueError",
                              !.ndraws = @ + 1, !.assigned = TRUE]
            ELSE [self EXCEPT !.weights_ =
                                  Some(Rescale(MinusHalf(d1.m), self.params.weight_scaling)),
                              !.random_state = d1.rng,
                              !.ndraws = @ + 1, !.assigned = TRUE])

\* a faulty variant: input_weights_ drawn in every call
LazyInputWeightsAlways(self, n_features) ==
    IF self.outcome # "ok" THEN self
    ELSE LetIn(Rand(self.random_state, self.params.n_components, 1 + n_features),
               LAMBDA d2 :
             [self EXCEPT !.input_weights_ = Some(MinusHalf(d2.m)),
                          !.random_state = d2.rng,
                          !.ndraws = @ + 1, !.assigned = TRUE])

\* transform, lines 202-205: if self.input_weights_ is None
LazyInputWeights(self, n_features) ==
    IF self.outcome # "ok" \/ ~IsNone(self.input_weights_) THEN self
    ELSE LetIn(Rand(self.random_state, self.params.n_components, 1 + n_features),
               LAMBDA d2 :
             [self EXCEPT !.input_weights_ = Some(MinusHalf(d2.m)),
                          !.random_state = d2.rng,
                          !.ndraws = @ + 1, !.assigned = TRUE])

\* transform, lines 207-210: if self.readout_idx_ is None
LazyReadout(self, n_features) ==
    IF self.outcome # "ok" \/ ~IsNone(self.readout_idx_) THEN self
    ELSE LetIn(DrawReadout(self.random_state, n_features,
                           self.params.n_components, self.params.n_readout),
               LAMBDA d3 :
             [self EXCEPT !.readout_idx_ = Some(d3.idx),
                          !.random_state = d3.rng,
                          !.ndraws = @ + 1, !.assigned = TRUE])

\* a faulty variant: a sequence of another width has input_weights_ drawn again for it
EchoRedraw(self, x) ==
    IF self.outcome # "ok" THEN self
    ELSE IF ~Aligned(Get(self.input_weights_), x)
    THEN LetIn(MinusHalf(Rand(self.random_state, self.params.n_components,
                              1 + Cols(x)).m), LAMBDA iw :
             [self EXCEPT !.input_weights_ = Some(iw),
                          !.components_ =
                              Some(Propagate(Get(self.weights_), iw,
                                             self.params.damping, x))])
    ELSE [self EXCEPT !.components_ =
                          Some(Propagate(Get(self.weights_), Get(self.input_weights_),
                                         self.params.damping, x))]

\* the reservoir rows of the last column of the trace comp
LastActivation(comp, n_components) ==
    [i \in 1..n_components |-> comp.a[Rows(comp) - n_components + i][Cols(comp)]]

\* a faulty variant: the loop starts from the activation the previous call ended with
EchoRetained(self, x) ==
    IF self.outcome # "ok" THEN self
    ELSE IF ~Aligned(Get(self.input_weights_), x)
    THEN [self EXCEPT !.components_ =
                          Some(Zeros(1 + Cols(x) + self.params.n_components, Rows(x))),
                      !.outcome = "ValueError"]
    ELSE [self EXCEPT !.components_ =
                          Some(PropagateFrom(Get(self.weights_), Get(self.input_weights_),
                                   self.params.damping, x,
                                   IF IsNone(self.components_)
                                   THEN [i \in 1..self.params.n_components |-> 0]
                                   ELSE LastActivation(Get(self.components_),
                                                       self.params.n_components)))]

\* transform, lines 212-223: components_ is replaced, then filled by the loop,
\* whose first iteration raises when x does not have the width of input_weights_
Echo(self, x) ==
    IF self.outcome # "ok" THEN self
    ELSE IF ~Aligned(Get(self.input_weights_), x)
    THEN [self EXCEPT !.components_ =
                          Some(Zeros(1 + Cols(x) + self.params.n_components, Rows(x))),
                      !.outcome = "ValueError"]
    ELSE [self EXCEPT !.components_ =
                          Some(Propagate(Get(self.weights_), Get(self.input_weights_),
                                         self.params.damping, x))]

\* a faulty variant: the readout permutation drawn before the input weights
TransformImplReadoutFirst(self, x) ==
    LetIn(LazyWeights(self), LAMBDA s1 :
    LetIn(LazyReadout(s1, Cols(x)), LAMBDA s2 :
    LetIn(LazyInputWeights(s2, Cols(x)), LAMBDA s3 : Echo(s3, x))))

\* SimpleESN.transform, up to its return statement
TransformImpl(self, x) ==
    LetIn(LazyWeights(self), LAMBDA s1 :
    LetIn(LazyInputWeights(s1, Cols(x)), LAMBDA s2 :
    LetIn(LazyReadout(s2, Cols(x)), LAMBDA s3 : Echo(s3, x))))

\* a faulty variant: _fit_transform keeping the weights an initialized instance holds
FitTransformImplReuse(self, x) ==
    IF IsNone(self.weights_) \/ IsNone(self.input_weights_) \/ IsNone(self.readout_idx_)
    THEN TransformImpl(self, x)
    ELSE Echo(self, x)

\* SimpleESN._fit_transform
FitTransformImpl(self, x) ==
    LET p  == self.params
        nc == p.n_components
        nf == Cols(x)
    IN  IF nc < 0
        THEN \* rand(nc, nc) raises: negative dimensions are not allowed
             [self EXCEPT !.outcome = "ValueError"]
        ELSE
        LetIn(Rand(self.random_state, nc, nc), LAMBDA d1 :
            IF nc = 0
            THEN \* weights_ is assigned, then np.max of no eigenvalue raises
                 [self EXCEPT !.weights_ = Some(MinusHalf(d1.m)),
                              !.random_state = d1.rng,
                              !.outcome = "ValueError",
                              !.ndraws = 1, !.assigned = TRUE]
            ELSE
            LetIn(Rescale(MinusHalf(d1.m), p.weight_scaling), LAMBDA w :
            LetIn(Rand(d1.rng, nc, 1 + nf), LAMBDA d2 :
            LetIn(MinusHalf(d2.m), LAMBDA iw :
            LetIn(DrawReadout(d2.rng, nf, nc, p.n_readout), LAMBDA d3 :
                [self EXCEPT !.weights_ = Some(w),
                             !.input_weights_ = Some(iw),
                             !.readout_idx_ = Some(d3.idx),
                             !.random_state = d3.rng,
                             !.components_ = Some(Propagate(w, iw, p.damping, x)),
                             !.ndraws = 3, !.assigned = TRUE])))))

\* the value a call that ran to its return statement returns
Returned(self) ==
    Readout(Get(self.components_), Get(self.readout_idx_), self.params.discard_steps)

----------------------------------------------------------------------------
(* The inputs explored *)

InputLevels == <<-Scale, Scale \div 2, Scale>>

\* a sequence of n_samples samples of n_features features
InputSeq(n_samples, n_features, pattern) ==
    Matrix(n_samples, n_features,
           LAMBDA i, j : InputLevels[((i + 2 * j + pattern) % Len(InputLevels)) + 1])

FeatureChoices == {1, 2}

\* a sequence of every length and width, and a second one of the longest
\* length with other values
Inputs ==
    { InputSeq(ns, nf, 0) : ns \in 1..MaxSamples, nf \in FeatureChoices }
        \cup { InputSeq(MaxSamples, 1, 1) }

\* the constructor arguments explored: the valid ones, and those the
\* constructor is handed all the same
ReadoutChoices == {0, 1, 2}
ComponentChoices == {-1, 0, 1, 2}
DampingChoices == {Scale \div 2, Scale + Scale \div 2}
DiscardChoices == {0, 1}
SeedChoices == {0, 1}
\* the states a generator seeded from the system's entropy may start in
EntropyStates == {11}

ParamChoices ==
    [n_readout : ReadoutChoices, n_components : ComponentChoices,
     damping : DampingChoices, weight_scaling : {(9 * Scale) \div 10},
     discard_steps : DiscardChoices]

NoCall == [op |-> "none", x |-> None, outcome |-> "none", result |-> None]
Idle == <<>>

----------------------------------------------------------------------------
(* The state after SimpleESN.__init__ *)

Init ==
    /\ params \in ParamChoices
    /\ \/ /\ seed = None
          /\ random_state \in EntropyStates
       \/ \E k \in SeedChoices : seed = Some(k) /\ random_state = SeedState(k)
    /\ weights_ = None
    /\ input_weights_ = None
    /\ readout_idx_ = None
    /\ components_ = None
    /\ last = NoCall
    /\ calls = 0
    /\ draws = 0
    /\ inits = 0
    /\ lazyInits = 0
    /\ memo = None
    /\ thr = Idle

\* what every call does to the instance and to the counters
Leaves(after, lazy) ==
    /\ random_state' = after.random_state
    /\ weights_' = after.weights_
    /\ input_weights_' = after.input_weights_
    /\ readout_idx_' = after.readout_idx_
    /\ components_' = after.components_
    /\ calls' = calls + 1
    /\ draws' = draws + after.ndraws
    /\ inits' = inits + (IF after.assigned THEN 1 ELSE 0)
    /\ lazyInits' = lazyInits + (IF after.assigned /\ lazy THEN 1 ELSE 0)
    /\ UNCHANGED <<params, seed, thr>>

\* SimpleESN.fit
Fit(x) ==
    /\ calls < MaxCalls
    /\ \E after \in {FitTransformImpl(Self, x)} :
           /\ Leaves(after, FALSE)
           /\ last' = [op |-> "fit", x |-> Some(x), outcome |-> after.outcome,
                       result |-> None]
           /\ memo' = IF after.assigned THEN None ELSE memo

\* SimpleESN.fit_transform
FitTransform(x) ==
    /\ calls < MaxCalls
    /\ \E after \in {FitTransformImpl(Self, x)} :
           /\ Leaves(after, FALSE)
           /\ last' = [op |-> "fit_transform", x |-> Some(x),
                       outcome |-> after.outcome,
                       result |-> IF after.outcome = "ok"
                                  THEN Some(Returned(after)) ELSE None]
           /\ memo' = IF after.assigned THEN None ELSE memo

\* SimpleESN.transform.  memo keeps the argument and the result of the first
\* transform call that returned since the weights were last assigned.
Transform(x) ==
    /\ calls < MaxCalls
    /\ \E after \in {TransformImpl(Self, x)} :
       \E out \in {IF after.outcome = "ok" THEN Some(Returned(after)) ELSE None} :
           /\ Leaves(after, TRUE)
           /\ last' = [op |-> "transform", x |-> Some(x),
                       outcome |-> after.outcome, result |-> out]
           /\ memo' = IF after.outcome = "ok" /\ (after.assigned \/ IsNone(memo))
                      THEN Some([x |-> x, result |-> Get(out)])
                      ELSE IF after.assigned THEN None ELSE memo

Next ==
    \/ \E x \in Inputs : Fit(x)
    \/ \E x \in Inputs : FitTransform(x)
    \/ \E x \in Inputs : Transform(x)

Spec == Init /\ [][Next]_vars

----------------------------------------------------------------------------
(* Two transform calls running concurrently on an initialized instance.     *)
(* Each call keeps curr_, t and x to itself; self.components_ is the        *)
(* instance's attribute.  A call's steps are the statements between which   *)
(* the interpreter may switch threads: the assignment of self.components_,  *)
(* each iteration of the loop, and the return statement.                    *)

Threads == {1, 2}

\* the instance a completed fit leaves, and two calls about to start on
\* sequences of the width it was initialized with
InitConc ==
    \E p \in ParamChoices, k \in SeedChoices, x0 \in Inputs :
        /\ p.n_components >= 1
        /\ p.n_readout >= 1
        /\ p.n_readout <= p.n_components
        /\ p.damping <= Scale
        /\ params = p
        /\ seed = Some(k)
        /\ \E after \in {FitTransformImpl(
                  [params |-> p, random_state |-> SeedState(k), weights_ |-> None,
                   input_weights_ |-> None, readout_idx_ |-> None,
                   components_ |-> None, outcome |-> "ok", ndraws |-> 0,
                   assigned |-> FALSE], x0)} :
              /\ random_state = after.random_state
              /\ weights_ = after.weights_
              /\ input_weights_ = after.input_weights_
              /\ readout_idx_ = after.readout_idx_
              /\ components_ = after.components_
        /\ last = [op |-> "fit", x |-> Some(x0), outcome |-> "ok", result |-> None]
        /\ calls = 1
        /\ draws = 3
        /\ inits = 1
        /\ lazyInits = 0
        /\ memo = None
        /\ thr \in [Threads -> { [pc |-> "start", x |-> x, curr |-> <<>>, t |-> 0,
                                  result |-> None] :
                                  x \in { y \in Inputs : Cols(y) = Cols(x0) } }]

\* lines 212-216: self.components_ = np.zeros(...); curr_ = np.zeros(...)
Alloc(i) ==
    /\ thr[i].pc = "start"
    /\ components_' = Some(Zeros(1 + Cols(thr[i].x) + params.n_components,
                                 Rows(thr[i].x)))
    /\ thr' = [thr EXCEPT ![i].pc = "loop",
                          ![i].curr = [k \in 1..params.n_components |-> 0]]
    /\ UNCHANGED <<params, seed, random_state, weights_, input_weights_,
                   readout_idx_, last, calls, draws, inits, lazyInits, memo>>

\* the array comp after comp[:, t] = col; <<>> where numpy raises, the column
\* index being out of bounds or col not having comp's height
SetColumn(comp, t, col) ==
    IF t > Cols(comp) \/ Len(col) # Rows(comp) THEN None
    ELSE Some([comp EXCEPT !.a = [i \in 1..Rows(comp) |->
                                     [comp.a[i] EXCEPT ![t] = col[i]]]])

\* lines 218-223: one iteration of the loop, writing into whatever array
\* self.components_ names at that moment
Iterate(i) ==
    /\ thr[i].pc = "loop"
    /\ thr[i].t < Rows(thr[i].x)
    /\ IF ~Aligned(Get(input_weights_), thr[i].x)
       THEN /\ thr' = [thr EXCEPT ![i].pc = "raised"]
            /\ UNCHANGED components_
       ELSE \E u \in {BiasRow(thr[i].x, thr[i].t + 1)} :
            \E curr \in {Update(Get(weights_), Get(input_weights_), params.damping,
                                thr[i].curr, u)} :
            \E written \in {SetColumn(Get(components_), thr[i].t + 1, VStack(u, curr))} :
                IF IsNone(written)
                THEN /\ thr' = [thr EXCEPT ![i].pc = "raised"]
                     /\ UNCHANGED components_
                ELSE /\ components_' = written
                     /\ thr' = [thr EXCEPT ![i].curr = curr, ![i].t = @ + 1]
    /\ UNCHANGED <<params, seed, random_state, weights_, input_weights_,
                   readout_idx_, last, calls, draws, inits, lazyInits, memo>>

\* line 225: return self.components_[self.readout_idx_, self.discard_steps:].T
Return(i) ==
    /\ thr[i].pc = "loop"
    /\ thr[i].t = Rows(thr[i].x)
    /\ IF \E k \in 1..Len(Get(readout_idx_)) :
              Get(readout_idx_)[k] + 1 > Rows(Get(components_))
       THEN thr' = [thr EXCEPT ![i].pc = "raised"]
       ELSE thr' = [thr EXCEPT ![i].pc = "done",
                               ![i].result = Some(Readout(Get(components_),
                                                          Get(readout_idx_),
                                                          params.discard_steps))]
    /\ UNCHANGED <<params, seed, random_state, weights_, input_weights_,
                   readout_idx_, components_, last, calls, draws, inits,
                   lazyInits, memo>>

NextConc == \E i \in Threads : Alloc(i) \/ Iterate(i) \/ Return(i)

SpecConc == InitConc /\ [][NextConc]_vars

----------------------------------------------------------------------------
(* Properties *)

Initialized == ~IsNone(weights_) /\ ~IsNone(input_weights_) /\ ~IsNone(readout_idx_)

\* the step is a call of one of the methods in ops
CallOf(ops) == calls' = calls + 1 /\ last'.op \in ops

\* the n_features the instance was initialized with
InitFeatures == Cols(Get(input_weights_)) - 1

\* The Initializer as section 4.1 of the specification states it: from the
\* generator state s, the recurrent matrix is drawn and rescaled, then the
\* input matrix is drawn, then the readout permutation.
Initializer(s, p, n_features) ==
    LetIn(Rand(s, p.n_components, p.n_components), LAMBDA A :
    LetIn(Rand(A.rng, p.n_components, 1 + n_features), LAMBDA B :
    LetIn(DrawReadout(B.rng, n_features, p.n_components, p.n_readout), LAMBDA C :
        [weights_ |-> Some(Rescale(MinusHalf(A.m), p.weight_scaling)),
         input_weights_ |-> Some(MinusHalf(B.m)),
         readout_idx_ |-> Some(C.idx),
         random_state |-> C.rng])))

(* C1: over any sequence of transform calls on an instance (n_components    *)
(* >= 1), the lazy initialization in transform runs at most once, and only  *)
(* in a call that finds weights_ absent; a transform call that finds the    *)
(* weights present leaves weights_, input_weights_ and readout_idx_ as they *)
(* were and draws nothing from the generator.                               *)
C1_LazyInitOnce ==
    [][ (CallOf({"transform"}) /\ params.n_components >= 1) =>
            /\ lazyInits' <= 1
            /\ (lazyInits' > lazyInits => IsNone(weights_))
            /\ (~IsNone(weights_) =>
                    /\ weights_' = weights_
                    /\ input_weights_' = input_weights_
                    /\ readout_idx_' = readout_idx_
                    /\ draws' = draws) ]_vars

\* three transform calls have been made and only the first one initialized
C1_Witness ==
    /\ params.n_components >= 1
    /\ calls = MaxCalls /\ inits = 1 /\ lazyInits = 1
    /\ last.op = "transform" /\ last.outcome = "ok"

(* C2: every call of fit or fit_transform (n_components >= 1) runs the      *)
(* Initializer again from the generator's present state, three draws, and   *)
(* replaces weights_, input_weights_ and readout_idx_ by what it draws,     *)
(* whether or not the instance was initialized; a transform call on the     *)
(* instance such a call has left keeps these weights.                       *)
C2_FitAlwaysReinitializes ==
    [][ /\ (CallOf({"fit", "fit_transform"}) /\ params.n_components >= 1) =>
            \E fresh \in {Initializer(random_state, params, Cols(Get(last'.x)))} :
                /\ weights_' = fresh.weights_
                /\ input_weights_' = fresh.input_weights_
                /\ readout_idx_' = fresh.readout_idx_
                /\ random_state' = fresh.random_state
                /\ draws' = draws + 3
                /\ inits' = inits + 1
        /\ (CallOf({"transform"}) /\ last.op \in {"fit", "fit_transform"}
                /\ last.outcome = "ok") =>
                /\ weights_' = weights_
                /\ input_weights_' = input_weights_
                /\ readout_idx_' = readout_idx_ ]_vars

\* an initialized instance was initialized again by fit or fit_transform,
\* and transform was called after that
C2_Witness ==
    /\ params.n_components >= 1
    /\ inits = 2 /\ lazyInits = 0 /\ calls = 3
    /\ last.op = "transform" /\ last.outcome = "ok"

(* C4: with n_readout > n_components no call of fit, fit_transform or       *)
(* transform returns, and readout_idx_ is never set.                        *)
C4_ReadoutAboveComponentsFails ==
    params.n_readout > params.n_components =>
        /\ last.outcome # "ok"
        /\ IsNone(readout_idx_)

(* C5: no instance exists whose n_readout is below 1, whose damping lies    *)
(* outside [0, 1] or whose n_components is negative.                        *)
C5_ConstructorValidates ==
    /\ params.n_readout >= 1
    /\ params.damping >= 0 /\ params.damping <= Scale
    /\ params.n_components >= 0

(* C6: a transform call on an initialized instance with a sequence whose    *)
(* n_features is not the one of the initialization raises (numpy's          *)
(* ValueError for operands that are not aligned), returns nothing and       *)
(* leaves weights_, input_weights_ and readout_idx_ unchanged.              *)
C6_MismatchRaises ==
    [][ (CallOf({"transform"}) /\ Initialized
            /\ Cols(Get(last'.x)) # InitFeatures) =>
            /\ last'.outcome = "ValueError"
            /\ IsNone(last'.result)
            /\ weights_' = weights_
            /\ input_weights_' = input_weights_
            /\ readout_idx_' = readout_idx_ ]_vars

\* a transform call has failed on an instance initialized for another width
C6_Witness ==
    /\ params.n_components >= 1
    /\ Initialized
    /\ last.op = "transform" /\ last.outcome = "ValueError"
    /\ Cols(Get(last.x)) # InitFeatures

(* C7: whenever readout_idx_ is set and n_readout <= n_components, it holds *)
(* exactly n_readout indices, pairwise distinct, each in                    *)
(* [1 + n_features, 1 + n_features + n_components).                         *)
C7_ReadoutIndices ==
    (~IsNone(readout_idx_) /\ params.n_readout <= params.n_components) =>
        LET idx == Get(readout_idx_)
        IN  /\ Len(idx) = params.n_readout
            /\ \A j, k \in 1..Len(idx) : j # k => idx[j] # idx[k]
            /\ \A j \in 1..Len(idx) :
                   /\ idx[j] >= 1 + InitFeatures
                   /\ idx[j] < 1 + InitFeatures + params.n_components

\* two readout neurons were drawn among two components
C7_Witness ==
    /\ ~IsNone(readout_idx_)
    /\ params.n_readout = 2 /\ params.n_components = 2
    /\ Len(Get(readout_idx_)) = 2

C9_TransformRepeatable ==
    (last.op = "transform" /\ last.outcome = "ok" /\ ~IsNone(memo)
        /\ Get(memo).x = Get(last.x)) =>
        Get(last.result) = Get(memo).result

\* the third of three transform calls repeats the first one's sequence, and
\* components_ holds its trace
C9_Witness ==
    /\ params.n_components >= 1 /\ params.n_readout >= 1
    /\ calls = 3 /\ inits = 1 /\ lazyInits = 1
    /\ last.op = "transform" /\ last.outcome = "ok"
    /\ Get(memo).x = Get(last.x)
    /\ Rows(Get(last.x)) = 2 /\ params.discard_steps = 0

(* C10: every initialization (n_components >= 1) consumes exactly three     *)
(* draws; after the first initialization of an instance built with a seed,  *)
(* by fit, fit_transform or transform, weights_, input_weights_ and         *)
(* readout_idx_ are the draws, in the order recurrent matrix, input matrix, *)
(* readout permutation, of the generator that seed gives: a function of the *)
(* seed, the parameters and the sequence's n_features alone.                *)
C10_SeededInitialization ==
    params.n_components >= 1 =>
        /\ draws = 3 * inits
        /\ (inits = 1 /\ ~IsNone(seed)) =>
               \E ref \in {Initializer(SeedState(Get(seed)), params, InitFeatures)} :
                   /\ weights_ = ref.weights_
                   /\ input_weights_ = ref.input_weights_
                   /\ readout_idx_ = ref.readout_idx_
                   /\ random_state = ref.random_state

\* a seeded instance whose first initialization was made by transform
C10_Witness ==
    /\ params.n_components = 2 /\ params.n_readout >= 1
    /\ ~IsNone(seed)
    /\ inits = 1 /\ lazyInits = 1 /\ draws = 3

\* what transform(x) returns when it runs alone on the present instance
Alone(x) ==
    LetIn(TransformImpl(Self, x), LAMBDA after :
        IF after.outcome = "ok" THEN Some(Returned(after)) ELSE None)

(* C3: of two transform calls running concurrently on an initialized        *)
(* instance, each one ends by returning the readout matrix it returns when  *)
(* run alone (and raises only where it raises alone).                       *)
C3_ConcurrentTransformSafe ==
    \A i \in Threads :
        /\ thr[i].pc = "done" => thr[i].result = Alone(thr[i].x)
        /\ thr[i].pc = "raised" => IsNone(Alone(thr[i].x))

====
